---- MODULE Spec2Model ----
(***************************************************************************)
(* The relay server (package relay, package files): the pending and ready  *)
(* FileSets and the request handlers CreateFile, UploadFile,               *)
(* GetFileContents, GetFileMetadata and GetFileList, each run by its own   *)
(* goroutine.  One action is one atomic step of a handler: a FileSet       *)
(* operation under its mutex, or one read of the request body / one write  *)
(* of the response body, together with the handler-local computation       *)
(* around it.  CreateFile, GetFileMetadata and GetFileList touch the       *)
(* shared state once, so each is one action; UploadFile and                *)
(* GetFileContents take several steps and run in a slot h[p].              *)
(***************************************************************************)
EXTENDS Integers, Sequences, FiniteSets, TLC

\* ------------------------------------------------------------------ bounds
\* number of UploadFile and GetFileContents handlers in flight at a time
NumProcs == 2
\* number of requests the server receives in a run
MaxRequests == 3
\* largest declared FileMetadata.Size a Create request submits
MaxSize == 1
\* largest number of Body.Read calls that one upload body answers
MaxReads == 2
\* largest number of fields of a submitted FileMetadata that break a rule
MaxBadFields == 1

\* ------------------------------------------------------- program constants
NonceSize == 24
SecretboxOverhead == 16
Overhead == NonceSize + SecretboxOverhead
SaltSize == 16
Sha256Size == 32
ChunkSize == 32 * 1024

StatusOK == 200
StatusCreated == 201
StatusBadRequest == 400
StatusNotFound == 404
StatusInternalServerError == 500

\* --------------------------------------------------------------- data model
Procs == 1..NumProcs
\* the identifiers uuid.New() can return, one for each request at most;
\* Nil is uuid.Nil
UUIDs == 1..MaxRequests
Nil == 0

\* a byte slice of length n whose bytes are all b
Bytes(n, b) == [i \in 1..n |-> b]

\* id.String(): the canonical text of a UUID, a one-element string here;
\* << >> is the empty string
String(id) == <<id>>

\* uuid.Parse: the UUID and err # nil; any text that is not the text of a
\* UUID gives (uuid.Nil, err)
Parse(idStr) ==
    IF Len(idStr) = 1
    THEN [id |-> idStr[1], err |-> FALSE]
    ELSE [id |-> Nil, err |-> TRUE]

\* the path parameters a request can carry: empty, not a UUID, uuid.Nil,
\* and every identifier the server can hand out
IdStrs == {<< >>, <<0, 0>>} \cup {String(id) : id \in {Nil} \cup UUIDs}

\* files.FileMetadata as decoded from a Create body.  Uploaded = 0 is the
\* zero time.Time, ID = << >> the empty string.
AllMetas ==
    [ID        : {<< >>, String(1)},
     Name      : {"", "a.txt"},
     Size      : 0..MaxSize,
     Salt      : {Bytes(SaltSize, 7), Bytes(SaltSize - 1, 7)},
     Hash      : {Bytes(Sha256Size, 5), Bytes(Sha256Size + 1, 5)},
     Challenge : {Bytes(Sha256Size + Overhead, 3), Bytes(Sha256Size, 3)},
     Uploaded  : {0, 1},
     Downloads : {0, 1}]

\* the fields of a submitted FileMetadata that break a rule of CreateFile
BadFields(meta) ==
    {k \in 1..8 :
        \/ k = 1 /\ meta.Name = ""
        \/ k = 2 /\ meta.Size = 0
        \/ k = 3 /\ Len(meta.Hash) # Sha256Size
        \/ k = 4 /\ Len(meta.Salt) # SaltSize
        \/ k = 5 /\ Len(meta.Challenge) # Sha256Size + Overhead
        \/ k = 6 /\ meta.Uploaded # 0
        \/ k = 7 /\ meta.ID # << >>
        \/ k = 8 /\ meta.Downloads # 0}

\* the metadata the Create requests of a run submit
MetaInputs == {meta \in AllMetas : Cardinality(BadFields(meta)) <= MaxBadFields}

\* the zero FileMetadata, left in meta when decoder.Decode fails
ZeroMeta ==
    [ID |-> << >>, Name |-> "", Size |-> 0, Salt |-> << >>, Hash |-> << >>,
     Challenge |-> << >>, Uploaded |-> 0, Downloads |-> 0]

\* the bodies of the Create requests: JSON that decodes to a FileMetadata,
\* or a body decoder.Decode rejects (malformed, or with an unknown field)
CreateBodies ==
    {[meta |-> meta, decodeErr |-> FALSE] : meta \in MetaInputs}
        \cup {[meta |-> ZeroMeta, decodeErr |-> TRUE]}

\* the results of one r.Body.Read(chunk) with len(chunk) = ChunkSize: n bytes
\* read and the error; n is 0, below, at and above Overhead, or a full chunk.
\* A Read that has nothing to deliver and no error to report blocks, so
\* (0, nil) is not a result.
ReadLens ==
    {0, Overhead - 1, ChunkSize} \cup {Overhead + k : k \in 0..MaxSize}
ReadErrs == {"nil", "EOF", "err"}
ReadResults ==
    {r \in [n : ReadLens, err : ReadErrs] : ~(r.n = 0 /\ r.err = "nil")}

\* files.File{}: the zero File
ZeroFile ==
    [ID |-> << >>, Name |-> "", Size |-> 0, Salt |-> << >>, Hash |-> << >>,
     Challenge |-> << >>, Uploaded |-> 0, Downloads |-> 0, Data |-> << >>]

\* f.FileMetadata: the embedded metadata of a File
FileMetadata(f) ==
    [ID |-> f.ID, Name |-> f.Name, Size |-> f.Size, Salt |-> f.Salt,
     Hash |-> f.Hash, Challenge |-> f.Challenge, Uploaded |-> f.Uploaded,
     Downloads |-> f.Downloads]

\* a File whose Data is allocated from the declared size at creation
NewFileRecordPreallocated(meta) ==
    [ID |-> meta.ID, Name |-> meta.Name, Size |-> meta.Size,
     Salt |-> meta.Salt, Hash |-> meta.Hash, Challenge |-> meta.Challenge,
     Uploaded |-> meta.Uploaded, Downloads |-> meta.Downloads,
     Data |-> <<[pos |-> 0, len |-> meta.Size]>>]

\* files.File{FileMetadata: meta, Data: make([][]byte, 0)}
NewFileRecord(meta) ==
    [ID |-> meta.ID, Name |-> meta.Name, Size |-> meta.Size,
     Salt |-> meta.Salt, Hash |-> meta.Hash, Challenge |-> meta.Challenge,
     Uploaded |-> meta.Uploaded, Downloads |-> meta.Downloads,
     Data |-> << >>]

\* ------------------------------------------------------------------ FileSet
\* A FileSet is its Files map, a function from the identifiers present to
\* their File.  Each operation runs under the set's mutex, so it is atomic.

\* NewSet
NewSet == [id \in {} |-> ZeroFile]

\* FileSet.Set
FileSetSet(files, id, f) ==
    [k \in DOMAIN files \cup {id} |-> IF k = id THEN f ELSE files[k]]

\* FileSet.Remove that returns the File and leaves it in the map
FileSetRemoveKeeps(files, id) ==
    IF id \in DOMAIN files
    THEN [files |-> files, f |-> files[id], ok |-> TRUE]
    ELSE [files |-> files, f |-> ZeroFile, ok |-> FALSE]

\* FileSet.Remove: the map afterwards, the File and ok
FileSetRemove(files, id) ==
    IF id \in DOMAIN files
    THEN [files |-> [k \in DOMAIN files \ {id} |-> files[k]],
          f |-> files[id], ok |-> TRUE]
    ELSE [files |-> files, f |-> ZeroFile, ok |-> FALSE]

\* a Get that reports every identifier as present
FileSetGetAlways(files, id) ==
    IF id \in DOMAIN files
    THEN [f |-> files[id], ok |-> TRUE]
    ELSE [f |-> ZeroFile, ok |-> TRUE]

\* FileSet.Get
FileSetGet(files, id) ==
    IF id \in DOMAIN files
    THEN [f |-> files[id], ok |-> TRUE]
    ELSE [f |-> ZeroFile, ok |-> FALSE]

\* ----------------------------------------------------- http.ResponseWriter
\* status 0: no header written yet.  body: the parts written, in order.
NewResponse == [status |-> 0, body |-> << >>]

\* w.WriteHeader: only the first call sets the status
WriteHeader(w, code) == IF w.status = 0 THEN [w EXCEPT !.status = code] ELSE w

\* a Write that puts the data before what was written earlier
WritePrepends(w, part) ==
    LET w1 == WriteHeader(w, StatusOK)
    IN [w1 EXCEPT !.body = <<part>> \o w1.body]

\* w.Write: writes the 200 header if none was written, then the data
Write(w, part) ==
    LET w1 == WriteHeader(w, StatusOK)
    IN [w1 EXCEPT !.body = Append(w1.body, part)]

\* http.Error
HttpError(w, msg, code) ==
    Write(WriteHeader(w, code), [t |-> "error", msg |-> msg])

\* http.NotFound
HttpNotFound(w) == HttpError(w, "404 page not found", StatusNotFound)

VARIABLES
    pendingFiles,   \* rs.pendingFiles.Files
    readyFiles,     \* rs.readyFiles.Files
    h,              \* the UploadFile and GetFileContents handlers in flight: position and locals
    resp,           \* the response of the handler that has just returned, until its client takes it
    nextId,         \* the number of identifiers uuid.New() has handed out
    requests,       \* the number of requests received
    claimed,        \* history: per identifier, pendingFiles.Remove calls that returned ok
    completed       \* history: per identifier, GetFileContents calls that wrote every chunk

\* the client side (package relay's RelayClient, package crypto's chunkReader)
VARIABLES
    adapters,       \* the encrypting and the decrypting chunkReader of a stream
    caller,         \* the reader of the two adapters: position, bytes read, last Read result
    dl,             \* RelayClient.DownloadFile: position, locals and the requests it issued
    put             \* RelayClient.UploadFile: position, locals and the body of its PUT

clientVars == <<adapters, caller, dl, put>>

\* the server's goroutines at the grain of its mutexes (package files' FileSet)
VARIABLES
    mu,             \* the holder of the mutex of each FileSet, or no goroutine
    g               \* per goroutine: the handler it runs and its position in it

lockVars == <<mu, g>>

serverVars == <<pendingFiles, readyFiles, h, resp, nextId, requests, claimed, completed>>

vars == <<pendingFiles, readyFiles, h, resp, nextId, requests, claimed, completed,
          adapters, caller, dl, put, mu, g>>

\* the value of a variable in a run that does not use it
NotRunning == [pc |-> "off"]

\* a slot that runs no handler
Idle ==
    [op |-> "none", pc |-> "idle", id |-> Nil, f |-> ZeroFile,
     fileBytes |-> 0, totalBytes |-> 0, i |-> 0, w |-> NewResponse]

\* a request is served by a new goroutine; the slots are interchangeable,
\* so it takes the lowest free one
Free(p) == h[p].pc = "idle" /\ \A q \in Procs : q < p => h[q].pc # "idle"

\* what a client sees of a handler that has returned: the handler, the
\* identifier its path parameter parsed to, and the response
Response(op, id, w) == [op |-> op, id |-> id, w |-> w]

\* no response is on its way to a client
NoResponse == Response("none", Nil, NewResponse)

\* resp shows each response in exactly one state: the step that follows a
\* handler's return is its client taking the response (ClientReceives),
\* which changes nothing else, and the handlers step when it is taken.
\* The handlers' steps still interleave in every order.
Taken == resp = NoResponse

\* the router hands one more request to its handler
Receive == requests < MaxRequests /\ requests' = requests + 1

\* NewServer: two empty sets, no request in flight
ServerInit ==
    /\ pendingFiles = NewSet
    /\ readyFiles = NewSet
    /\ h = [p \in Procs |-> Idle]
    /\ resp = NoResponse
    /\ nextId = 0
    /\ requests = 0
    /\ claimed = [id \in {Nil} \cup UUIDs |-> 0]
    /\ completed = [id \in {Nil} \cup UUIDs |-> 0]

\* ListenAndServe: the server alone
Init ==
    /\ ServerInit
    /\ adapters = NotRunning
    /\ caller = NotRunning
    /\ dl = NotRunning
    /\ put = NotRunning
    /\ mu = NotRunning
    /\ g = NotRunning

\* ---------------------------------------------------------------- CreateFile
\* an identifier derived from the request instead of drawn at random: two
\* requests get the same one
NewUUIDRepeats(n) == 1

\* uuid.New(): a random (version 4) UUID, different from every UUID handed
\* out before; the identifiers are opaque, so the call after n others
\* returns n + 1
NewUUID(n) == n + 1

\* time.Now().UTC(): some instant that is not the zero time
TimeNow == 1

\* the checks of CreateFile without the salt check
RejectReasonNoSaltCheck(meta, decodeErr) ==
    IF decodeErr THEN "json: cannot decode body"
    ELSE IF meta.Name = "" THEN "Name cannot be empty"
    ELSE IF meta.Size = 0 THEN "File must be >0 bytes"
    ELSE IF Len(meta.Hash) # Sha256Size THEN "Hash must be valid SHA-256 hash"
    ELSE IF Len(meta.Challenge) # Sha256Size + Overhead THEN "Invalid challenge size"
    ELSE IF meta.Uploaded # 0 THEN "Unexpected field \"uploaded\" found"
    ELSE IF meta.ID # << >> THEN "Unexpected field \"id\" found"
    ELSE ""

\* CreateFile, the checks that write a 400 and return: the reason, or ""
\* when every one of them passes
RejectReason(meta, decodeErr) ==
    IF decodeErr THEN "json: cannot decode body"
    ELSE IF meta.Name = "" THEN "Name cannot be empty"
    ELSE IF meta.Size = 0 THEN "File must be >0 bytes"
    ELSE IF Len(meta.Hash) # Sha256Size THEN "Hash must be valid SHA-256 hash"
    ELSE IF Len(meta.Salt) # SaltSize THEN "Salt must be 16 bytes"
    ELSE IF Len(meta.Challenge) # Sha256Size + Overhead THEN "Invalid challenge size"
    ELSE IF meta.Uploaded # 0 THEN "Unexpected field \"uploaded\" found"
    ELSE IF meta.ID # << >> THEN "Unexpected field \"id\" found"
    ELSE ""

\* CreateFile, the downloads check: it writes the 400 and does not return
DownloadsCheck(w, meta) ==
    IF meta.Downloads # 0
    THEN HttpError(w, "Unexpected field \"downloads\" found", StatusBadRequest)
    ELSE w

\* CreateFile
CreateFile(meta, decodeErr) ==
    LET reason == RejectReason(meta, decodeErr)
    IN /\ Taken
       /\ UNCHANGED <<clientVars, lockVars>>
       /\ Receive
       /\ IF reason # ""
          THEN /\ resp' = Response("Create", Nil,
                                   HttpError(NewResponse, reason, StatusBadRequest))
               /\ UNCHANGED <<pendingFiles, readyFiles, h, nextId, claimed, completed>>
          ELSE /\ LET w1 == DownloadsCheck(NewResponse, meta)
                      id == NewUUID(nextId)
                      meta1 == [meta EXCEPT !.ID = String(id), !.Uploaded = TimeNow]
                      f == NewFileRecord(meta1)
                      w2 == Write(WriteHeader(w1, StatusCreated),
                                  [t |-> "id", id |-> String(id)])
                  IN /\ pendingFiles' = FileSetSet(pendingFiles, id, f)
                     /\ nextId' = nextId + 1
                     /\ resp' = Response("Create", id, w2)
               /\ UNCHANGED <<readyFiles, h, claimed, completed>>

\* ---------------------------------------------------------------- UploadFile
\* UploadFile, fileBytes += uint64(n - crypto.Overhead)
PlainLen(n) == n - Overhead

\* the check after each chunk, off by one
ExceedsSizeOffByOne(fileBytes, size) == fileBytes > size + 1

\* UploadFile, the check after each chunk: fileBytes > f.Size
ExceedsSize(fileBytes, size) == fileBytes > size

\* the check at end of body, off by one
SmallerThanSizeOffByOne(fileBytes, size) == fileBytes + 1 < size

\* the check at end of body, never taken
SmallerThanSizeNever(fileBytes, size) == FALSE

\* UploadFile, the check at end of body: fileBytes < f.Size
SmallerThanSize(fileBytes, size) == fileBytes < size

\* UploadFile up to the claim: the path parameter, uuid.Parse and
\* pendingFiles.Remove
UploadClaim(p, idStr) ==
    /\ Taken
    /\ UNCHANGED <<clientVars, lockVars>>
    /\ Receive
    /\ Free(p)
    /\ IF idStr = << >>
       THEN /\ resp' = Response("Upload", Nil,
                          HttpError(NewResponse, "Missing file ID", StatusBadRequest))
            /\ UNCHANGED <<pendingFiles, claimed, h>>
       ELSE LET parsed == Parse(idStr)
                r == FileSetRemove(pendingFiles, parsed.id)
            IN /\ pendingFiles' = r.files
               /\ claimed' = IF r.ok THEN [claimed EXCEPT ![parsed.id] = @ + 1] ELSE claimed
               /\ IF ~r.ok \/ parsed.err
                  THEN /\ resp' = Response("Upload", parsed.id, HttpNotFound(NewResponse))
                       /\ UNCHANGED h
                  ELSE /\ h' = [h EXCEPT ![p] = [Idle EXCEPT !.op = "Upload", !.pc = "read",
                                                    !.id = parsed.id, !.f = r.f]]
                       /\ UNCHANGED resp
    /\ UNCHANGED <<readyFiles, nextId, completed>>

\* UploadFile, the loop: r.Context().Done() is closed, the handler returns
\* without writing a response
UploadCancelled(p) ==
    /\ Taken
    /\ UNCHANGED <<clientVars, lockVars>>
    /\ h[p].op = "Upload" /\ h[p].pc = "read"
    /\ h' = [h EXCEPT ![p] = Idle]
    /\ resp' = Response("Upload", h[p].id, h[p].w)
    /\ UNCHANGED <<pendingFiles, readyFiles, nextId, requests, claimed, completed>>

\* UploadFile, one iteration of the loop: r.Body.Read returns (n, err).
\* h[p].i counts the reads; a chunk is stored as the number of the read
\* that produced it and its length.
UploadRead(p, n, err) ==
    /\ Taken
    /\ UNCHANGED <<clientVars, lockVars>>
    /\ h[p].op = "Upload" /\ h[p].pc = "read"
    /\ err = "nil" => h[p].i + 1 < MaxReads
    /\ LET s == h[p]
           fileBytes == s.fileBytes + PlainLen(n)
           totalBytes == s.totalBytes + n
           chunk == [pos |-> s.i + 1, len |-> n]
           Reject(msg, code) ==
               /\ h' = [h EXCEPT ![p] = Idle]
               /\ resp' = Response("Upload", s.id, HttpError(s.w, msg, code))
           AfterRead(t) ==
               IF err = "EOF"
               THEN h' = [h EXCEPT ![p] = [t EXCEPT !.pc = "finish"]] /\ UNCHANGED resp
               ELSE IF err = "err"
               THEN Reject("read error", StatusInternalServerError)
               ELSE h' = [h EXCEPT ![p] = t] /\ UNCHANGED resp
       IN IF n > 0
          THEN IF n < Overhead
               THEN Reject("Invalid chunk", StatusBadRequest)
               ELSE IF ExceedsSize(fileBytes, s.f.Size)
               THEN Reject("Data exceeded expected file size", StatusBadRequest)
               ELSE AfterRead([s EXCEPT !.i = @ + 1,
                                 !.fileBytes = fileBytes, !.totalBytes = totalBytes,
                                 !.f.Data = Append(@, chunk)])
          ELSE AfterRead([s EXCEPT !.i = @ + 1])
    /\ UNCHANGED <<pendingFiles, readyFiles, nextId, requests, claimed, completed>>

\* UploadFile after the loop: the size check, readyFiles.Set and the empty
\* 200 response
UploadFinish(p) ==
    /\ Taken
    /\ UNCHANGED <<clientVars, lockVars>>
    /\ h[p].op = "Upload" /\ h[p].pc = "finish"
    /\ h' = [h EXCEPT ![p] = Idle]
    /\ IF SmallerThanSize(h[p].fileBytes, h[p].f.Size)
       THEN /\ resp' = Response("Upload", h[p].id,
                          HttpError(h[p].w, "Data smaller than expected file size",
                                    StatusBadRequest))
            /\ UNCHANGED readyFiles
       ELSE /\ readyFiles' = FileSetSet(readyFiles, h[p].id, h[p].f)
            /\ resp' = Response("Upload", h[p].id, Write(h[p].w, [t |-> "empty"]))
    /\ UNCHANGED <<pendingFiles, nextId, requests, claimed, completed>>

\* ----------------------------------------------------------- GetFileContents
\* GetFileContents up to the lookup: the path parameter, uuid.Parse and
\* readyFiles.Get, which returns a copy of the File
ContentsGet(p, idStr) ==
    /\ Taken
    /\ UNCHANGED <<clientVars, lockVars>>
    /\ Receive
    /\ Free(p)
    /\ IF idStr = << >>
       THEN /\ resp' = Response("GetFileContents", Nil,
                          HttpError(NewResponse, "Missing file ID", StatusBadRequest))
            /\ UNCHANGED h
       ELSE LET parsed == Parse(idStr)
                r == FileSetGet(readyFiles, parsed.id)
            IN IF ~r.ok \/ parsed.err
               THEN /\ resp' = Response("GetFileContents", parsed.id,
                                        HttpNotFound(NewResponse))
                    /\ UNCHANGED h
               ELSE /\ h' = [h EXCEPT ![p] = [Idle EXCEPT !.op = "GetFileContents",
                                                 !.pc = "write", !.id = parsed.id, !.f = r.f]]
                    /\ UNCHANGED resp
    /\ UNCHANGED <<pendingFiles, readyFiles, nextId, claimed, completed>>

\* GetFileContents, one iteration of the loop: w.Write(f.Data[i]) and Flush,
\* or a write error and return
ContentsWrite(p, writeErr) ==
    /\ Taken
    /\ UNCHANGED <<clientVars, lockVars>>
    /\ h[p].op = "GetFileContents" /\ h[p].pc = "write"
    /\ h[p].i < Len(h[p].f.Data)
    /\ IF writeErr
       THEN /\ h' = [h EXCEPT ![p] = Idle]
            /\ resp' = Response("GetFileContents", h[p].id, h[p].w)
       ELSE /\ h' = [h EXCEPT ![p].i = @ + 1,
                        ![p].w = Write(@, [t |-> "chunk", chunk |-> h[p].f.Data[h[p].i + 1]])]
            /\ UNCHANGED resp
    /\ UNCHANGED <<pendingFiles, readyFiles, nextId, requests, claimed, completed>>

\* a download that takes the File out of the map
IncrementDownloadsRemoves(files, id, f) ==
    [files |-> [k \in DOMAIN files \ {id} |-> files[k]],
     f |-> [f EXCEPT !.Downloads = @ + 1]]

\* GetFileContents after the loop, under the readyFiles mutex:
\* f.Downloads += 1, where f is the handler's copy of the File; the map and
\* the File afterwards
IncrementDownloads(files, id, f) ==
    [files |-> files, f |-> [f EXCEPT !.Downloads = @ + 1]]

\* GetFileContents after the loop: every chunk is written
ContentsCount(p) ==
    /\ Taken
    /\ UNCHANGED <<clientVars, lockVars>>
    /\ h[p].op = "GetFileContents" /\ h[p].pc = "write"
    /\ h[p].i = Len(h[p].f.Data)
    /\ readyFiles' = IncrementDownloads(readyFiles, h[p].id, h[p].f).files
    /\ h' = [h EXCEPT ![p] = Idle]
    /\ resp' = Response("GetFileContents", h[p].id, WriteHeader(h[p].w, StatusOK))
    /\ completed' = [completed EXCEPT ![h[p].id] = @ + 1]
    /\ UNCHANGED <<pendingFiles, nextId, requests, claimed>>

\* ------------------------------------------------ GetFileMetadata, GetFileList
\* GetFileMetadata
GetFileMetadata(idStr) ==
    /\ Taken
    /\ UNCHANGED <<clientVars, lockVars>>
    /\ Receive
    /\ IF idStr = << >>
       THEN resp' = Response("GetFileMetadata", Nil,
                       HttpError(NewResponse, "Missing file ID", StatusBadRequest))
       ELSE LET parsed == Parse(idStr)
                r == FileSetGet(readyFiles, parsed.id)
            IN IF ~r.ok \/ parsed.err
               THEN resp' = Response("GetFileMetadata", parsed.id, HttpNotFound(NewResponse))
               ELSE resp' = Response("GetFileMetadata", parsed.id,
                               Write(NewResponse, [t |-> "meta", meta |-> FileMetadata(r.f)]))
    /\ UNCHANGED <<pendingFiles, readyFiles, h, nextId, claimed, completed>>

\* GetFileList: the metadata of every File of readyFiles, collected under
\* its mutex; the order of a map range is unspecified, so the list is a set
GetFileList ==
    /\ Taken
    /\ UNCHANGED <<clientVars, lockVars>>
    /\ Receive
    /\ resp' = Response("GetFileList", Nil,
                  Write(NewResponse,
                        [t |-> "list",
                         metas |-> {FileMetadata(readyFiles[id]) : id \in DOMAIN readyFiles}]))
    /\ UNCHANGED <<pendingFiles, readyFiles, h, nextId, claimed, completed>>

\* the client of the handler that has just returned receives its response
ClientReceives ==
    /\ resp # NoResponse
    /\ resp' = NoResponse
    /\ UNCHANGED <<pendingFiles, readyFiles, h, nextId, requests, claimed, completed>>
    /\ UNCHANGED <<clientVars, lockVars>>

Next ==
    \/ \E b \in CreateBodies : CreateFile(b.meta, b.decodeErr)
    \/ \E p \in Procs, idStr \in IdStrs : UploadClaim(p, idStr)
    \/ \E p \in Procs : UploadCancelled(p)
    \/ \E p \in Procs, r \in ReadResults : UploadRead(p, r.n, r.err)
    \/ \E p \in Procs : UploadFinish(p)
    \/ \E p \in Procs, idStr \in IdStrs : ContentsGet(p, idStr)
    \/ \E p \in Procs, writeErr \in BOOLEAN : ContentsWrite(p, writeErr)
    \/ \E p \in Procs : ContentsCount(p)
    \/ \E idStr \in IdStrs : GetFileMetadata(idStr)
    \/ GetFileList
    \/ ClientReceives

Spec == Init /\ [][Next]_vars

\* ======================================================================
\* Properties
\* ======================================================================

\* the plaintext-equivalent bytes of a stored chunk sequence: the sum over
\* the chunks of (length - Overhead)
RECURSIVE SumPlain(_)
SumPlain(data) ==
    IF data = << >> THEN 0
    ELSE (Head(data).len - Overhead) + SumPlain(Tail(data))

\* the UploadFile handlers in flight that hold the record of id
Uploading(id) == {p \in Procs : h[p].op = "Upload" /\ h[p].id = id}

\* the response is an http.Error with this message and status
IsError(w, msg, code) ==
    w = [status |-> code, body |-> <<[t |-> "error", msg |-> msg]>>]

\* the response body carries an identifier
ReturnsId(w) == \E k \in 1..Len(w.body) : w.body[k].t = "id"

\* ---------------------------------------------------------------- C1
\* C1: in every reachable state no identifier is a key of both the pending
\* set and the ready set.
C1_PendingReadyDisjoint == DOMAIN pendingFiles \cap DOMAIN readyFiles = {}

\* one record has been moved to the ready set while another is pending
C1_Witness ==
    /\ DOMAIN readyFiles # {}
    /\ DOMAIN pendingFiles # {}

\* ---------------------------------------------------------------- C2
\* C2: of the Upload requests against one identifier at most one obtains
\* the record from pendingFiles.Remove, it alone holds or has stored the
\* record, and every other such request is answered not-found and leaves
\* every handler's record and both sets as they were.
C2_Inv ==
    \A id \in {Nil} \cup UUIDs :
        /\ claimed[id] <= 1
        /\ Cardinality(Uploading(id)) + (IF id \in DOMAIN readyFiles THEN 1 ELSE 0)
               <= claimed[id]

C2_Step ==
    requests' # requests =>
    \A p \in Procs, idStr \in IdStrs \ {<< >>} :
        UploadClaim(p, idStr) =>
            LET id == Parse(idStr).id
            IN IF id \in DOMAIN pendingFiles /\ claimed[id] = 0
               THEN /\ claimed'[id] = 1
                    /\ Uploading(id)' = {p}
                    /\ h'[p].f = pendingFiles[id]
               ELSE /\ resp'.w.status = StatusNotFound
                    /\ UNCHANGED <<h, pendingFiles, readyFiles, claimed>>

C2_OneUploadClaims == []C2_Inv /\ [][C2_Step]_vars

\* an upload holds the record of an identifier while another upload of the
\* same identifier has been answered not-found
C2_Witness ==
    /\ resp.op = "Upload"
    /\ resp.w.status = StatusNotFound
    /\ Uploading(resp.id) # {}

\* ---------------------------------------------------------------- C3
\* C3: for every record of the ready set the sum over its stored chunks of
\* (chunk length - Overhead) equals its declared Size.
C3_ReadyIsComplete ==
    \A id \in DOMAIN readyFiles :
        SumPlain(readyFiles[id].Data) = readyFiles[id].Size

\* a ready record stored in more than one chunk
C3_Witness ==
    \E id \in DOMAIN readyFiles : Len(readyFiles[id].Data) >= 2

\* ---------------------------------------------------------------- C4
\* C4: an identifier that an Upload has claimed is never a key of the
\* pending set again, every later Upload for it is answered not-found, and
\* after the claiming upload was cancelled or rejected it is in neither set.
C4_Inv ==
    /\ \A id \in UUIDs : claimed[id] >= 1 => id \notin DOMAIN pendingFiles
    /\ (/\ resp.op = "Upload"
        /\ resp.id \in UUIDs
        /\ claimed[resp.id] >= 1
        /\ resp.w.status \notin {StatusOK, StatusNotFound})
           => resp.id \notin DOMAIN pendingFiles \cup DOMAIN readyFiles

C4_Step ==
    requests' # requests =>
    \A p \in Procs, id \in UUIDs :
        (claimed[id] >= 1 /\ UploadClaim(p, String(id)))
            => /\ resp'.w.status = StatusNotFound
               /\ UNCHANGED <<h, pendingFiles, readyFiles>>

C4_ClaimedNeverPendingAgain == []C4_Inv /\ [][C4_Step]_vars

\* a claiming upload has just been cancelled: no response written
C4_Witness ==
    /\ resp.op = "Upload"
    /\ resp.id \in UUIDs
    /\ claimed[resp.id] = 1
    /\ resp.w.status = 0

\* ---------------------------------------------------------------- C5
\* a submitted FileMetadata sets a server-owned field
SetsServerOwnedField(meta) ==
    meta.ID # << >> \/ meta.Uploaded # 0 \/ meta.Downloads # 0

\* C5: a Create request whose metadata sets a server-owned field (ID,
\* Uploaded or Downloads) is answered with a client error, inserts no record
\* into the pending set and returns no identifier.
C5_ServerOwnedFieldsRejected ==
    [][resp'.op = "Create" =>
       \A b \in CreateBodies :
          (/\ ~b.decodeErr /\ SetsServerOwnedField(b.meta)
           /\ CreateFile(b.meta, b.decodeErr))
              => /\ resp'.w.status = StatusBadRequest
                 /\ pendingFiles' = pendingFiles
                 /\ ~ReturnsId(resp'.w)]_vars

\* ---------------------------------------------------------------- C6
\* C6: an Upload whose body ends with a total of (chunk length - Overhead)
\* strictly below the declared Size is answered with a 400 at end of body
\* and its record is not put into the ready set.
C6_Inv ==
    (/\ resp.op = "Upload"
     /\ IsError(resp.w, "Data smaller than expected file size", StatusBadRequest))
        => resp.id \notin DOMAIN readyFiles

C6_Step ==
    \A p \in Procs :
        (h[p].pc = "finish" /\ UploadFinish(p) /\ SumPlain(h[p].f.Data) < h[p].f.Size)
            => /\ resp'.op = "Upload" /\ resp'.id = h[p].id
               /\ IsError(resp'.w, "Data smaller than expected file size", StatusBadRequest)
               /\ readyFiles' = readyFiles
               /\ h'[p] = Idle

C6_ShortBodyRejected == []C6_Inv /\ [][C6_Step]_vars

\* an upload has just been rejected at end of body for a short total
C6_Witness ==
    /\ resp.op = "Upload"
    /\ resp.id \in UUIDs
    /\ IsError(resp.w, "Data smaller than expected file size", StatusBadRequest)

\* ---------------------------------------------------------------- C7
\* C7: during an Upload the total of (chunk length - Overhead) over the
\* accepted chunks never exceeds the declared Size; the read of the first
\* chunk that would push it over is answered with a 400, the handler
\* returns without storing the chunk or reading on, and the record is not
\* in the ready set.
C7_Inv ==
    /\ \A p \in Procs :
          h[p].op = "Upload" =>
              /\ h[p].fileBytes = SumPlain(h[p].f.Data)
              /\ SumPlain(h[p].f.Data) <= h[p].f.Size
    /\ (/\ resp.op = "Upload"
        /\ IsError(resp.w, "Data exceeded expected file size", StatusBadRequest))
           => /\ resp.id \notin DOMAIN readyFiles
              /\ Uploading(resp.id) = {}

C7_Step ==
    \A p \in Procs :
      (h[p].pc = "read" /\ h'[p] # h[p]) =>
      \A r \in ReadResults :
        (/\ r.n >= Overhead
         /\ UploadRead(p, r.n, r.err)
         /\ SumPlain(h[p].f.Data) + (r.n - Overhead) > h[p].f.Size)
            => /\ resp'.op = "Upload" /\ resp'.id = h[p].id
               /\ IsError(resp'.w, "Data exceeded expected file size", StatusBadRequest)
               /\ h'[p] = Idle
               /\ readyFiles' = readyFiles

C7_TotalNeverExceedsSize == []C7_Inv /\ [][C7_Step]_vars

\* an upload has just been rejected for exceeding the declared size
C7_Witness ==
    /\ resp.op = "Upload"
    /\ resp.id \in UUIDs
    /\ IsError(resp.w, "Data exceeded expected file size", StatusBadRequest)

\* ---------------------------------------------------------------- C8
\* C8: after k >= 1 GetFileContents requests for a ready identifier have
\* each written the full body, the Downloads counter of the record stored
\* in the ready set equals k.
C8_DownloadsCounted ==
    \A id \in DOMAIN readyFiles :
        completed[id] >= 1 => readyFiles[id].Downloads = completed[id]

\* ---------------------------------------------------------------- C9
\* C9: a Create whose metadata satisfies every rule adds exactly one record
\* to the pending set, under an identifier that was in neither set and
\* never claimed, with no chunks and the submitted name, size, salt, hash
\* and challenge; it answers 201 with that identifier and leaves the ready
\* set and every other pending record unchanged.
C9_Step ==
    resp'.op = "Create" =>
    \A b \in CreateBodies :
        (/\ ~b.decodeErr /\ BadFields(b.meta) = {}
         /\ CreateFile(b.meta, b.decodeErr))
            => \E id \in UUIDs :
                  /\ id \notin DOMAIN pendingFiles \cup DOMAIN readyFiles
                  /\ claimed[id] = 0
                  /\ DOMAIN pendingFiles' = DOMAIN pendingFiles \cup {id}
                  /\ \A k \in DOMAIN pendingFiles : pendingFiles'[k] = pendingFiles[k]
                  /\ pendingFiles'[id].Data = << >>
                  /\ pendingFiles'[id].ID = String(id)
                  /\ pendingFiles'[id].Name = b.meta.Name
                  /\ pendingFiles'[id].Size = b.meta.Size
                  /\ pendingFiles'[id].Salt = b.meta.Salt
                  /\ pendingFiles'[id].Hash = b.meta.Hash
                  /\ pendingFiles'[id].Challenge = b.meta.Challenge
                  /\ resp'.w = [status |-> StatusCreated,
                                body |-> <<[t |-> "id", id |-> String(id)]>>]
                  /\ readyFiles' = readyFiles

C9_CreateAddsOnePending == [][C9_Step]_vars

\* a Create has just been answered 201 and put a second record next to one
\* that was pending already
C9_Witness ==
    /\ resp.op = "Create"
    /\ resp.w.status = StatusCreated
    /\ resp.id \in DOMAIN pendingFiles
    /\ Cardinality(DOMAIN pendingFiles) >= 2

\* ---------------------------------------------------------------- C10
\* a submitted FileMetadata breaks a rule on name, size, hash, salt or
\* challenge
BreaksMetadataRule(meta) ==
    \/ meta.Name = ""
    \/ meta.Size = 0
    \/ Len(meta.Hash) # 32
    \/ Len(meta.Salt) # 16
    \/ Len(meta.Challenge) # 32 + Overhead

\* C10: a Create request whose metadata has an empty name, size 0, a hash
\* not of 32 bytes, a salt not of 16 bytes or a challenge not of
\* 32 + Overhead bytes is answered 400 and changes neither set.
C10_Step ==
    resp'.op = "Create" =>
    \A b \in CreateBodies :
        (/\ ~b.decodeErr /\ BreaksMetadataRule(b.meta)
         /\ CreateFile(b.meta, b.decodeErr))
            => /\ resp'.op = "Create"
               /\ resp'.w.status = StatusBadRequest
               /\ ~ReturnsId(resp'.w)
               /\ pendingFiles' = pendingFiles
               /\ readyFiles' = readyFiles

C10_InvalidMetadataRejected == [][C10_Step]_vars

\* a Create has just been rejected for its salt while a record is pending
C10_Witness ==
    /\ resp.op = "Create"
    /\ IsError(resp.w, "Salt must be 16 bytes", StatusBadRequest)
    /\ DOMAIN pendingFiles # {}

\* ---------------------------------------------------------------- C11
\* C11: the lookups expose ready records only.  A GetFileMetadata or
\* GetFileContents request for an identifier that is not in the ready set
\* at the lookup (pending, held by an upload in flight, or absent) is
\* answered not-found and starts no download; one that is answered
\* otherwise carries the record the ready set held.  GetFileList returns
\* the metadata of exactly the records of the ready set at the lookup.
C11_Step ==
    requests' # requests =>
    /\ \A idStr \in IdStrs \ {<< >>} :
         LET id == Parse(idStr).id
         IN /\ GetFileMetadata(idStr) =>
                 IF id \in DOMAIN readyFiles
                 THEN resp'.w = [status |-> StatusOK,
                                 body |-> <<[t |-> "meta",
                                             meta |-> FileMetadata(readyFiles[id])]>>]
                 ELSE IsError(resp'.w, "404 page not found", StatusNotFound)
            /\ \A p \in Procs :
                 ContentsGet(p, idStr) =>
                     IF id \in DOMAIN readyFiles
                     THEN h'[p].f = readyFiles[id] /\ h'[p].w = NewResponse
                     ELSE /\ IsError(resp'.w, "404 page not found", StatusNotFound)
                          /\ UNCHANGED h
    /\ GetFileList =>
         /\ resp'.w.status = StatusOK
         /\ \E k \in 1..Len(resp'.w.body) :
              /\ resp'.w.body[k].t = "list"
              /\ \A id \in UUIDs :
                   (id \in DOMAIN readyFiles)
                       <=> (\E m \in resp'.w.body[k].metas : m.ID = String(id))
              /\ \A m \in resp'.w.body[k].metas :
                   \E id \in DOMAIN readyFiles : m = FileMetadata(readyFiles[id])

C11_ReadyOnlyLookups == [][C11_Step]_vars

\* a metadata request for an identifier that an upload in flight holds has
\* been answered not-found
C11_Witness ==
    /\ resp.op = "GetFileMetadata"
    /\ resp.w.status = StatusNotFound
    /\ Uploading(resp.id) # {}

\* ---------------------------------------------------------------- C12
\* the parts a complete download of the chunk sequence data writes
ChunkParts(data) == [k \in 1..Len(data) |-> [t |-> "chunk", chunk |-> data[k]]]

\* C12: a download writes the stored chunks in the order in which the
\* upload appended them.  Every read of the upload body that delivers bytes
\* is appended after the chunks stored before it, the stored sequence of a
\* record is the body's reads in their order (the k-th chunk is the k-th
\* read), and the body of a complete download is that sequence, each chunk
\* once and in that order.
C12_Inv ==
    /\ \A id \in DOMAIN readyFiles :
         \A k \in 1..Len(readyFiles[id].Data) : readyFiles[id].Data[k].pos = k
    /\ \A p \in Procs :
         h[p].op = "GetFileContents" =>
             /\ h[p].f.Data = readyFiles[h[p].id].Data
             /\ h[p].w.body = ChunkParts(SubSeq(h[p].f.Data, 1, h[p].i))

C12_Step ==
    /\ \A p \in Procs :
         (h[p].pc = "read" /\ h'[p].pc \in {"read", "finish"} /\ h'[p] # h[p]) =>
         \A r \in ReadResults :
           (r.n > 0 /\ UploadRead(p, r.n, r.err)) =>
               h'[p].f.Data = Append(h[p].f.Data, [pos |-> h[p].i + 1, len |-> r.n])
    /\ \A p \in Procs :
         (h[p].pc = "finish" /\ h'[p] # h[p] /\ resp'.w.status = StatusOK) =>
             readyFiles'[h[p].id].Data = h[p].f.Data
    /\ completed' # completed =>
         \A p \in Procs :
           ContentsCount(p) =>
               /\ resp'.w.status = StatusOK
               /\ resp'.w.body = ChunkParts(readyFiles[h[p].id].Data)

C12_DownloadInAppendOrder == []C12_Inv /\ [][C12_Step]_vars

\* a complete download of a record of two chunks of different lengths has
\* been answered
C12_Witness ==
    /\ resp.op = "GetFileContents"
    /\ completed[resp.id] = 1
    /\ Len(resp.w.body) = 2
    /\ resp.w.body[1] # resp.w.body[2]

\* ---------------------------------------------------------------- C13
\* the status the client of a handler that has returned is sent: net/http
\* sends 200 when the handler wrote no header
StatusSent(w) == IF w.status = 0 THEN StatusOK ELSE w.status

\* C13: an Upload is answered 200 if and only if that request moved the
\* record into the ready set; one that ends by request cancellation, by an
\* invalid chunk or by a size mismatch is answered 400, and one for an
\* unknown or already claimed identifier is answered 404.
C13_Step ==
    (resp = NoResponse /\ resp'.op = "Upload") =>
        /\ StatusSent(resp'.w) = StatusOK
               <=> resp'.id \in DOMAIN readyFiles' \ DOMAIN readyFiles
        /\ (\E p \in Procs : UploadCancelled(p))
               => StatusSent(resp'.w) = StatusBadRequest
        /\ (\E p \in Procs : h[p].pc = "finish" /\ h'[p] # h[p]
                               /\ h[p].fileBytes # h[p].f.Size)
               => StatusSent(resp'.w) = StatusBadRequest
        /\ (\E p \in Procs, r \in ReadResults :
               /\ h[p].pc = "read" /\ h'[p] # h[p]
               /\ r.n > 0
               /\ r.n < Overhead \/ h[p].fileBytes + (r.n - Overhead) > h[p].f.Size
               /\ UploadRead(p, r.n, r.err))
               => StatusSent(resp'.w) = StatusBadRequest
        /\ (requests' # requests /\ resp'.id # Nil
               /\ resp'.id \notin DOMAIN pendingFiles)
               => StatusSent(resp'.w) = StatusNotFound

C13_UploadStatus == [][C13_Step]_vars

\* ---------------------------------------------------------------- C14
\* C14: a record of the ready set stays in the ready set, and no step
\* changes its chunk sequence, name, size, salt, hash, challenge or
\* creation timestamp.
C14_Step ==
    readyFiles' # readyFiles =>
    \A id \in DOMAIN readyFiles :
        /\ id \in DOMAIN readyFiles'
        /\ readyFiles'[id].Data = readyFiles[id].Data
        /\ readyFiles'[id].Name = readyFiles[id].Name
        /\ readyFiles'[id].Size = readyFiles[id].Size
        /\ readyFiles'[id].Salt = readyFiles[id].Salt
        /\ readyFiles'[id].Hash = readyFiles[id].Hash
        /\ readyFiles'[id].Challenge = readyFiles[id].Challenge
        /\ readyFiles'[id].Uploaded = readyFiles[id].Uploaded

C14_ReadyStaysReady == [][C14_Step]_vars

\* a record is in the ready set after a complete download of it
C14_Witness ==
    \E id \in DOMAIN readyFiles :
        /\ completed[id] = 1
        /\ readyFiles[id].Data # << >>
        /\ resp = NoResponse

\* ======================================================================
\* package crypto and the client (package relay, RelayClient)
\* ======================================================================

\* ------------------------------------------------------------------ bounds
\* number of full chunks of the largest plaintext of a stream
MaxChunks == 2
\* largest plaintext that is read through a source whose reads are scripted
MaxScripted == 2
\* smallest buffer a caller passes to an adapter's Read
MinBuf == 1

\* ------------------------------------------------------- program constants
\* a plaintext chunk as long as a transport chunk
RawChunkSizeWhole == ChunkSize

RawChunkSize == ChunkSize - Overhead

\* ------------------------------------------------------------ byte strings
\* A byte string is a sequence of runs; a run is len bytes at offset from
\* of an object src, which is a plaintext file or a sealed box.  Adjacent
\* runs of one object are kept merged and no run is empty, so two byte
\* strings are the same bytes exactly when they are equal.

\* GenerateKey with a given salt: scrypt.Key(password, salt, ...), a key
\* that no other password and salt give
GenerateKey(password, salt) == [password |-> password, salt |-> salt]

\* the key of an object that is not sealed
NoKey == GenerateKey("", "")

\* the plaintext file
FileObject == [t |-> "file", key |-> NoKey, plain |-> << >>]

\* the output of sha256 for the bytes plain
HashObject(plain) == [t |-> "hash", key |-> NoKey, plain |-> plain]

\* the output of secretbox.Seal for one chunk, nonce in front: it opens
\* under key alone and to plain alone
Box(key, plain) == [t |-> "box", key |-> key, plain |-> plain]

\* len(b)
RECURSIVE ByteLen(_)
ByteLen(b) == IF b = << >> THEN 0 ELSE Head(b).len + ByteLen(Tail(b))

\* append(a, b...)
Cat(a, b) ==
    IF a = << >> THEN b
    ELSE IF b = << >> THEN a
    ELSE LET x == a[Len(a)]
             y == b[1]
         IN IF x.src = y.src /\ x.from + x.len = y.from
            THEN SubSeq(a, 1, Len(a) - 1)
                     \o <<[x EXCEPT !.len = x.len + y.len]>> \o Tail(b)
            ELSE a \o b

\* b[:n], for n <= len(b)
RECURSIVE Take(_, _)
Take(b, n) ==
    IF n = 0 \/ b = << >> THEN << >>
    ELSE IF Head(b).len <= n
    THEN <<Head(b)>> \o Take(Tail(b), n - Head(b).len)
    ELSE <<[Head(b) EXCEPT !.len = n]>>

\* b[n:], for n <= len(b)
RECURSIVE Drop(_, _)
Drop(b, n) ==
    IF n = 0 \/ b = << >> THEN b
    ELSE IF Head(b).len <= n
    THEN Drop(Tail(b), n - Head(b).len)
    ELSE <<[Head(b) EXCEPT !.from = @ + n, !.len = @ - n]>> \o Tail(b)

\* the first n bytes of the plaintext file
FileBytes(n) == IF n = 0 THEN << >> ELSE <<[src |-> FileObject, from |-> 0, len |-> n]>>

Min(a, b) == IF a <= b THEN a ELSE b

\* F(v), with v evaluated once
Let(v, F(_)) == CHOOSE y \in {F(x) : x \in {v}} : TRUE

\* HashData: the SHA-256 of the bytes an io.Reader delivers, Sha256Size
\* bytes that no other input gives
HashData(data) == <<[src |-> HashObject(data), from |-> 0, len |-> Sha256Size]>>

\* ------------------------------------------------- EncryptChunk, DecryptChunk
\* EncryptChunk: the nonce followed by the sealed chunk, len(chunk) +
\* Overhead bytes (rand.Read does not fail)
EncryptChunk(key, chunk) ==
    [out |-> <<[src |-> Box(key, chunk), from |-> 0, len |-> ByteLen(chunk) + Overhead]>>,
     err |-> "nil"]

\* a DecryptChunk that opens a box under any key
DecryptChunkAnyKey(key, ciphertext) ==
    IF ByteLen(ciphertext) < Overhead
    THEN [out |-> << >>, err |-> "ErrCiphertextTooShort"]
    ELSE IF /\ Len(ciphertext) = 1
            /\ ciphertext[1].src.t = "box"
            /\ ciphertext[1].from = 0
            /\ ciphertext[1].len = ByteLen(ciphertext[1].src.plain) + Overhead
    THEN [out |-> ciphertext[1].src.plain, err |-> "nil"]
    ELSE [out |-> << >>, err |-> "ErrDecryptFailed"]

\* DecryptChunk: secretbox.Open succeeds on the whole of one box, nonce
\* included, sealed under this key, and on nothing else
DecryptChunk(key, ciphertext) ==
    IF ByteLen(ciphertext) < Overhead
    THEN [out |-> << >>, err |-> "ErrCiphertextTooShort"]
    ELSE IF /\ Len(ciphertext) = 1
            /\ ciphertext[1].src.t = "box"
            /\ ciphertext[1].from = 0
            /\ ciphertext[1].len = ByteLen(ciphertext[1].src.plain) + Overhead
            /\ ciphertext[1].src.key = key
    THEN [out |-> ciphertext[1].src.plain, err |-> "nil"]
    ELSE [out |-> << >>, err |-> "ErrDecryptFailed"]

\* ------------------------------------------------------------- io.Reader
\* The upstream source of an adapter: the bytes it has still to deliver
\* and a script, the results (n, err) of its next Reads.  A scripted Read
\* delivers at most n bytes, fewer than asked for while bytes remain, with
\* the scripted error, and it has no more bytes after an EOF; once the
\* script is used up the source reads like a bytes.Reader: as many bytes as
\* asked for and remain, and (0, EOF) at the end.
NewSource(data, script) == [data |-> data, script |-> script]

\* r.Read(b) with len(b) = l: the source afterwards, the bytes and the error
SourceRead(r, l) ==
    IF r.script = << >>
    THEN IF r.data = << >>
         THEN [r |-> r, data |-> << >>, err |-> "EOF"]
         ELSE LET n == Min(l, ByteLen(r.data))
              IN [r |-> [r EXCEPT !.data = Drop(@, n)],
                  data |-> Take(r.data, n), err |-> "nil"]
    ELSE LET s == Head(r.script)
             n == Min(Min(s.n, l), ByteLen(r.data))
             err == IF n = 0 /\ s.err = "nil" THEN "EOF" ELSE s.err
         IN [r |-> [data |-> IF err = "EOF" THEN << >> ELSE Drop(r.data, n),
                    script |-> Tail(r.script)],
             data |-> Take(r.data, n),
             err |-> err]

\* ------------------------------------------------------------ chunkReader
\* chunk = nil is isNil.  blocks and up are history: the lengths of the
\* blocks passed to chunkFn so far, and the result of the last upstream
\* Read.
NoRead == [n |-> 0, err |-> "none"]

NewChunkReader(r, chunkFn, chunkSize, key) ==
    [r |-> r, chunkFn |-> chunkFn, key |-> key, chunkSize |-> chunkSize,
     chunk |-> << >>, isNil |-> TRUE, idx |-> 0,
     blocks |-> << >>, up |-> NoRead]

\* NewEncryptingReader
NewEncryptingReader(r, chunkSize, key) == NewChunkReader(r, "EncryptChunk", chunkSize, key)

\* NewDecryptingReader
NewDecryptingReader(r, chunkSize, key) == NewChunkReader(r, "DecryptChunk", chunkSize, key)

\* er.chunkFn(er.key, data)
ChunkFn(er, data) ==
    IF er.chunkFn = "EncryptChunk"
    THEN EncryptChunk(er.key, data)
    ELSE DecryptChunk(er.key, data)

\* readNextChunk after the upstream Read returned rd
AfterSourceRead(er, rd) ==
    LET n == ByteLen(rd.data)
        er1 == [er EXCEPT !.r = rd.r, !.up = [n |-> n, err |-> rd.err]]
    IN IF n = 0 THEN [er |-> er1, err |-> "EOF"]
       ELSE IF rd.err # "nil" /\ rd.err # "EOF" THEN [er |-> er1, err |-> rd.err]
       ELSE Let(ChunkFn(er, rd.data), LAMBDA next :
                IF next.err # "nil"
                THEN [er |-> [er1 EXCEPT !.blocks = Append(@, n)], err |-> next.err]
                ELSE [er |-> [er1 EXCEPT !.blocks = Append(@, n), !.chunk = next.out,
                                         !.isNil = FALSE, !.idx = 0],
                      err |-> "nil"])

\* readNextChunk: one upstream Read of chunkSize bytes; the adapter
\* afterwards and the error
readNextChunk(er) ==
    Let(SourceRead(er.r, er.chunkSize), LAMBDA rd : AfterSourceRead(er, rd))

\* Read, the loop `for n < l`: b holds the n bytes copied so far
RECURSIVE ReadLoop(_, _, _)
ReadLoop(er, b, l) ==
    LET n == ByteLen(b)
        copied == Min(l - n, ByteLen(er.chunk) - er.idx)
    IN IF n >= l THEN [er |-> er, data |-> b, err |-> "nil"]
       ELSE Let(Cat(b, Take(Drop(er.chunk, er.idx), copied)), LAMBDA b1 :
            Let([er EXCEPT !.idx = @ + copied], LAMBDA er1 :
                IF er1.idx >= ByteLen(er1.chunk)
                THEN Let(readNextChunk(er1), LAMBDA x :
                         IF x.err # "nil"
                         THEN [er |-> x.er, data |-> b1, err |-> x.err]
                         ELSE ReadLoop(x.er, b1, l))
                ELSE ReadLoop(er1, b1, l)))

\* chunkReader.Read(b) with len(b) = l: the adapter afterwards, the bytes
\* copied into b and the error
Read(er, l) ==
    IF er.isNil
    THEN Let(readNextChunk(er), LAMBDA x :
             IF x.err # "nil"
             THEN [er |-> x.er, data |-> << >>, err |-> x.err]
             ELSE ReadLoop(x.er, << >>, l))
    ELSE ReadLoop(er, << >>, l)

\* ------------------------------------------------------------ the stream
\* One stream: a caller reads the encrypting adapter over a plaintext file
\* to its end, Read by Read with buffers of its choice, and then reads the
\* decrypting adapter over the bytes it got in the same way.  caller.wire
\* and caller.out are the bytes the Reads of the two adapters returned so
\* far, caller.err the error of the last Read; caller.size and the scripts
\* are the inputs of the run.

\* the key of the stream
StreamKey == GenerateKey("password", "salt1")

\* the results a scripted upstream Read can have: no or one byte, with no
\* error, EOF or another error; (0, nil) is not a result
ScriptEntries == {e \in [n : {0, 1}, err : ReadErrs] : ~(e.n = 0 /\ e.err = "nil")}
Scripts == {<< >>} \cup {<<e>> : e \in ScriptEntries}

\* the plaintext sizes: none, one byte, around one chunk, several chunks,
\* and the small ones that scripted sources deliver
PlainSizes ==
    {0, 1, RawChunkSize - 1, RawChunkSize, RawChunkSize + 1}
        \cup {k * RawChunkSize + 1 : k \in 2..MaxChunks}
        \cup 0..MaxScripted

\* the streams of a run: a plaintext size and the scripts of the two
\* upstream sources
StreamInputs ==
    {s \in [size : PlainSizes, encScript : Scripts, decScript : Scripts] :
        (s.encScript = << >> /\ s.decScript = << >>) \/ s.size <= MaxScripted}

\* len(b) of the caller's Reads
BufSizes == {MinBuf, RawChunkSize, ChunkSize + 1}

\* the decrypting adapter before the caller has the bytes to feed it
NoInput == NewSource(<< >>, << >>)

StreamInit ==
    /\ ServerInit
    /\ dl = NotRunning
    /\ put = NotRunning
    /\ mu = NotRunning
    /\ g = NotRunning
    /\ \E s \in StreamInputs :
         /\ adapters =
              [enc |-> NewEncryptingReader(NewSource(FileBytes(s.size), s.encScript),
                                           RawChunkSize, StreamKey),
               dec |-> NewDecryptingReader(NoInput, ChunkSize, StreamKey)]
         /\ caller = [pc |-> "enc", size |-> s.size,
                      encScript |-> s.encScript, decScript |-> s.decScript,
                      wire |-> << >>, out |-> << >>, err |-> "none"]

\* the caller reads the encrypting adapter; at end of input it makes the
\* decrypting adapter over the bytes it has read
EncRead(l) ==
    /\ caller.pc = "enc"
    /\ \E x \in {Read(adapters.enc, l)} : \E wire \in {Cat(caller.wire, x.data)} :
          /\ adapters' =
               [enc |-> x.er,
                dec |-> IF x.err = "EOF"
                        THEN NewDecryptingReader(NewSource(wire, caller.decScript),
                                                 ChunkSize, StreamKey)
                        ELSE adapters.dec]
          /\ caller' = [caller EXCEPT
                          !.pc = IF x.err = "nil" THEN "enc"
                                 ELSE IF x.err = "EOF" THEN "dec" ELSE "done",
                          !.wire = wire,
                          !.err = x.err]
    /\ UNCHANGED <<serverVars, lockVars, dl, put>>

\* the caller reads the decrypting adapter
DecRead(l) ==
    /\ caller.pc = "dec"
    /\ \E x \in {Read(adapters.dec, l)} :
          /\ adapters' = [adapters EXCEPT !.dec = x.er]
          /\ caller' = [caller EXCEPT
                          !.pc = IF x.err = "nil" THEN "dec" ELSE "done",
                          !.out = Cat(@, x.data),
                          !.err = x.err]
    /\ UNCHANGED <<serverVars, lockVars, dl, put>>

StreamNext ==
    \/ \E l \in BufSizes : EncRead(l)
    \/ \E l \in BufSizes : DecRead(l)

StreamSpec == StreamInit /\ [][StreamNext]_vars

\* ------------------------------------------------- RelayClient.DownloadFile
\* len of the buffers io.ReadAll reads with (it starts with 512 bytes and
\* grows the buffer as it fills)
ReadAllBuf == 8192

\* io.ReadAll(r): Reads until an error; EOF is not reported as an error
RECURSIVE ReadAllLoop(_, _)
ReadAllLoop(er, b) ==
    Let(Read(er, ReadAllBuf), LAMBDA x :
    Let(Cat(b, x.data), LAMBDA b1 :
        IF x.err = "EOF" THEN [data |-> b1, err |-> "nil"]
        ELSE IF x.err # "nil" THEN [data |-> b1, err |-> x.err]
        ELSE ReadAllLoop(x.er, b1)))

ReadAll(er) == ReadAllLoop(er, << >>)

\* FileMetadata.CheckChallenge
CheckChallenge(file, key) ==
    LET b == DecryptChunk(key, file.Challenge)
    IN IF b.err # "nil" THEN FALSE ELSE b.out = file.Hash

\* a comparison of the hashes that always succeeds
HashesMatchAlways(hash, meta) == TRUE

\* DownloadFile, bytes.Equal(hash, meta.Hash)
HashesMatch(hash, meta) == hash = meta.Hash

\* the errors DownloadFile makes itself
ErrPassword == "failed to validate challenge; incorrect password for decryption"
ErrHashes == "hashes do not match"
ErrStatus == "download failed with status code"

\* the file that was uploaded: two chunks
DlFile == FileBytes(RawChunkSize + 1)

\* bytes that are no box and no hash
JunkBytes(n) == <<[src |-> [t |-> "junk", key |-> NoKey, plain |-> << >>], from |-> 0, len |-> n]>>

Passwords == {"password", "guess"}
\* salts of SaltSize bytes
Salts == {"salt1", "salt2"}
Hashes == {HashData(DlFile), HashData(Take(DlFile, RawChunkSize))}

\* the challenges a metadata response can carry: a hash sealed under some
\* key, bytes of the right length that are no box, and a challenge shorter
\* than Overhead
Challenges ==
    {EncryptChunk(GenerateKey(p, s), hsh).out : p \in Passwords, s \in Salts, hsh \in Hashes}
        \cup {JunkBytes(Sha256Size + Overhead), JunkBytes(Overhead - 1)}

\* the FileMetadata a metadata response can decode to; the fields
\* DownloadFile does not read are left out
ClientMetas == [Salt : Salts, Hash : Hashes, Challenge : Challenges]

\* no FileMetadata decoded yet
NoMeta == [Salt |-> "", Hash |-> << >>, Challenge |-> << >>]

\* the responses to GET /files/:id/metadata: a transport error, a status
\* other than 200, a body that is not JSON, and a FileMetadata
MetaResponses ==
    {[err |-> "transport", status |-> 0, json |-> FALSE, meta |-> NoMeta],
     [err |-> "nil", status |-> StatusNotFound, json |-> FALSE, meta |-> NoMeta],
     [err |-> "nil", status |-> StatusOK, json |-> FALSE, meta |-> NoMeta]}
        \cup {[err |-> "nil", status |-> StatusOK, json |-> TRUE, meta |-> m] :
                 m \in ClientMetas}

\* the ciphertext of the pieces under key, one box a piece
RECURSIVE Seal(_, _)
Seal(key, pieces) ==
    IF pieces = << >> THEN << >>
    ELSE EncryptChunk(key, Head(pieces)).out \o Seal(key, Tail(pieces))

\* the bodies a contents response can carry for a key: the upload, the
\* upload without its last chunk, with its chunks swapped, followed by
\* bytes that are no chunk, and nothing
BodiesFor(key) ==
    LET c1 == Take(DlFile, RawChunkSize)
        c2 == Drop(DlFile, RawChunkSize)
    IN {Seal(key, <<c1, c2>>), Seal(key, <<c1>>), Seal(key, <<c2, c1>>),
        Seal(key, <<c1, c2>>) \o JunkBytes(Overhead - 1), << >>}

\* the scripts of a response body: reads as long as asked for, a first
\* read that ends at the first small box, a short first read, and a first
\* read that fails
BodyScripts ==
    {<< >>, <<[n |-> 1 + Overhead, err |-> "nil"]>>, <<[n |-> 1, err |-> "nil"]>>,
     <<[n |-> 0, err |-> "err"]>>}

\* the responses to GET /files/:id
ContentsResponses ==
    {[err |-> "transport", status |-> 0, body |-> NoInput],
     [err |-> "nil", status |-> StatusNotFound, body |-> NoInput]}
        \cup {[err |-> "nil", status |-> StatusOK, body |-> NewSource(b, sc)] :
                 b \in UNION {BodiesFor(GenerateKey(p, s)) : p \in Passwords, s \in Salts},
                 sc \in BodyScripts}

\* what DownloadFile returns: (nil, err) or (file, nil)
Return(isNil, file, err) == [isNil |-> isNil, file |-> file, err |-> err]
NotReturned == Return(TRUE, << >>, "none")

\* DownloadFile is called with a password.  dl.gets is history: the
\* requests issued so far; dl.hashed is history: the hashes were compared.
DownloadInit ==
    /\ ServerInit
    /\ adapters = NotRunning
    /\ caller = NotRunning
    /\ put = NotRunning
    /\ mu = NotRunning
    /\ g = NotRunning
    /\ \E pass \in Passwords :
         dl = [pc |-> "metadata", pass |-> pass, meta |-> NoMeta, key |-> NoKey,
               body |-> NoInput, file |-> << >>, hashed |-> FALSE,
               gets |-> << >>, ret |-> NotReturned]

\* DownloadFile up to the challenge check: GET /files/:id/metadata, the
\* status check, json.Unmarshal, GenerateKey and CheckChallenge
FetchMetadata(res) ==
    /\ dl.pc = "metadata"
    /\ LET d1 == [dl EXCEPT !.gets = Append(@, "GET /files/:id/metadata")]
           Fail(err) == dl' = [d1 EXCEPT !.pc = "done", !.ret = Return(TRUE, << >>, err)]
       IN IF res.err # "nil" THEN Fail(res.err)
          ELSE IF res.status # StatusOK THEN Fail(ErrStatus)
          ELSE IF ~res.json THEN Fail("json: cannot unmarshal")
          ELSE LET key == GenerateKey(dl.pass, res.meta.Salt)
                   d2 == [d1 EXCEPT !.meta = res.meta, !.key = key]
               IN IF CheckChallenge(res.meta, key)
                  THEN dl' = [d2 EXCEPT !.pc = "contents"]
                  ELSE dl' = [d2 EXCEPT !.pc = "done",
                                        !.ret = Return(TRUE, << >>, ErrPassword)]
    /\ UNCHANGED <<serverVars, lockVars, adapters, caller, put>>

\* DownloadFile, GET /files/:id and the status check
FetchContents(res) ==
    /\ dl.pc = "contents"
    /\ LET d1 == [dl EXCEPT !.gets = Append(@, "GET /files/:id")]
           Fail(err) == dl' = [d1 EXCEPT !.pc = "done", !.ret = Return(TRUE, << >>, err)]
       IN IF res.err # "nil" THEN Fail(res.err)
          ELSE IF res.status # StatusOK THEN Fail(ErrStatus)
          ELSE dl' = [d1 EXCEPT !.pc = "decrypt", !.body = res.body]
    /\ UNCHANGED <<serverVars, lockVars, adapters, caller, put>>

\* DownloadFile, the rest: io.ReadAll of the decrypting adapter over the
\* body, HashData and the comparison with meta.Hash
DecryptAndCheck ==
    /\ dl.pc = "decrypt"
    /\ \E all \in {ReadAll(NewDecryptingReader(dl.body, ChunkSize, dl.key))} :
          IF all.err # "nil"
          THEN dl' = [dl EXCEPT !.pc = "done", !.ret = Return(TRUE, << >>, all.err)]
          ELSE IF ~HashesMatch(HashData(all.data), dl.meta)
          THEN dl' = [dl EXCEPT !.pc = "done", !.file = all.data, !.hashed = TRUE,
                                !.ret = Return(TRUE, << >>, ErrHashes)]
          ELSE dl' = [dl EXCEPT !.pc = "done", !.file = all.data, !.hashed = TRUE,
                                !.ret = Return(FALSE, all.data, "nil")]
    /\ UNCHANGED <<serverVars, lockVars, adapters, caller, put>>

DownloadNext ==
    \/ \E res \in MetaResponses : FetchMetadata(res)
    \/ \E res \in ContentsResponses : FetchContents(res)
    \/ DecryptAndCheck

DownloadSpec == DownloadInit /\ [][DownloadNext]_vars

\* ---------------------------------------------------------------- C15
\* the challenge of meta is the hash of meta sealed under the key derived
\* from pass and the salt of meta
ChallengeOpens(meta, pass) ==
    meta.Challenge = EncryptChunk(GenerateKey(pass, meta.Salt), meta.Hash).out

\* C15: when the challenge of the fetched metadata does not open under the
\* key derived from the password to the hash (it is sealed under another
\* key, is shorter than Overhead, or is no box), DownloadFile returns the
\* password error and has issued no request but the one for the metadata;
\* a request for the body is issued only after the challenge has opened.
C15_NoBodyWithoutChallenge ==
    /\ (dl.meta # NoMeta /\ ~ChallengeOpens(dl.meta, dl.pass)) =>
           /\ dl.pc = "done"
           /\ dl.ret = Return(TRUE, << >>, ErrPassword)
           /\ dl.gets = <<"GET /files/:id/metadata">>
    /\ (\E k \in 1..Len(dl.gets) : dl.gets[k] = "GET /files/:id") =>
           /\ dl.meta # NoMeta
           /\ dl.key = GenerateKey(dl.pass, dl.meta.Salt)
           /\ ChallengeOpens(dl.meta, dl.pass)
           /\ dl.gets = <<"GET /files/:id/metadata", "GET /files/:id">>

\* DownloadFile has returned the password error for a challenge sealed
\* under the key of another password
C15_Witness ==
    /\ dl.pc = "done"
    /\ dl.ret.err = ErrPassword
    /\ \E p \in Passwords \ {dl.pass} : ChallengeOpens(dl.meta, p)

\* ---------------------------------------------------------------- C16
\* C16: DownloadFile returns file bytes only when it has decrypted the
\* whole body and the SHA-256 of the decrypted bytes is the hash of the
\* fetched metadata, and then it returns those bytes; when the hashes
\* differ it returns no data and the integrity error, which is not the
\* password error.
C16_BytesOnlyIfHashMatches ==
    /\ ~dl.ret.isNil =>
           /\ dl.hashed
           /\ HashData(dl.file) = dl.meta.Hash
           /\ dl.ret = Return(FALSE, dl.file, "nil")
    /\ (dl.hashed /\ HashData(dl.file) # dl.meta.Hash) =>
           /\ dl.ret = Return(TRUE, << >>, ErrHashes)
           /\ dl.ret.err # ErrPassword

\* DownloadFile has decrypted a body that lacks a chunk of the upload and
\* has returned the integrity error
C16_Witness ==
    /\ dl.hashed
    /\ dl.file = Take(DlFile, RawChunkSize)
    /\ dl.meta.Hash = HashData(DlFile)
    /\ dl.ret.err = ErrHashes

\* ---------------------------------------------------------------- C17
\* the sources of the run read like a bytes.Reader: no Read is scripted
Unscripted == caller.encScript = << >> /\ caller.decScript = << >>

\* C17: streaming round trip.  For a plaintext of 0, 1, RawChunkSize - 1,
\* RawChunkSize, RawChunkSize + 1 bytes or of several chunks, read in full
\* through the encrypting adapter (chunk size RawChunkSize) and the bytes
\* got read through the decrypting adapter (chunk size ChunkSize) under the
\* same key, with any buffer sizes: no Read returns an error other than
\* EOF, the bytes got from the decrypting adapter are at every moment the
\* first bytes of the plaintext, and at its EOF they are all of it.
C17_RoundTrip ==
    (caller.pc # "off" /\ Unscripted) =>
        /\ caller.err \in {"none", "nil", "EOF"}
        /\ caller.out = Take(FileBytes(caller.size), ByteLen(caller.out))
        /\ caller.pc = "done" =>
               /\ caller.err = "EOF"
               /\ caller.out = FileBytes(caller.size)

\* a plaintext of more than two chunks has come back whole
C17_Witness ==
    /\ caller.pc = "done"
    /\ Unscripted
    /\ caller.size > 2 * RawChunkSize
    /\ caller.out = FileBytes(caller.size)
    /\ ByteLen(caller.wire) = caller.size + 3 * Overhead

\* ---------------------------------------------------------------- C18
\* C18: when the upstream Read of an adapter has returned an error other
\* than EOF, with or without bytes, the Read of the adapter that made it
\* returns that error, and the caller is not told that the input ended.
C18_UpstreamErrorReturned ==
    caller.pc # "off" =>
        /\ adapters.enc.up.err = "err" => (caller.pc = "done" /\ caller.err = "err")
        /\ adapters.dec.up.err = "err" => (caller.pc = "done" /\ caller.err = "err")

\* ---------------------------------------------------------------- C19
\* C19: of the blocks an adapter has passed to its transform, every one but
\* the last is chunkSize bytes long, whatever the upstream Reads return.
C19_FullBlocks ==
    caller.pc # "off" =>
        \A a \in {"enc", "dec"} :
            \A k \in 1..(Len(adapters[a].blocks) - 1) :
                adapters[a].blocks[k] = adapters[a].chunkSize

\* ======================================================================
\* The handlers at the grain of the FileSet mutexes
\* ======================================================================
\* Each goroutine runs one handler at a time.  A step of a handler is a
\* Lock or an Unlock of the mutex of one FileSet, a Read of the request
\* body, a write of the response, a step that does none of these, or its
\* return.  The data is left out: where the code branches on it, every
\* branch can be taken, and the branch is taken before the Lock it leads
\* to (the positions U0l, U5l, G0l, G3l, M0l are the calls of Set, Get and
\* Remove and the Lock of GetFileContents).

Goroutines == 1..NumProcs
NoGoroutine == 0
Handlers == {"CreateFile", "UploadFile", "GetFileContents", "GetFileMetadata", "GetFileList"}

\* the first position of a handler
Entry(op) ==
    CASE op = "CreateFile" -> "C0"
      [] op = "UploadFile" -> "U0"
      [] op = "GetFileContents" -> "G0"
      [] op = "GetFileMetadata" -> "M0"
      [] op = "GetFileList" -> "L0"

Edge(from, kind, set, to) == [from |-> from, kind |-> kind, set |-> set, to |-> to]

\* GetFileList with the Unlock deferred to its return
GetFileListFlowDeferred ==
    {Edge("L0", "lock", "ready", "L1"),
     Edge("L1", "write", "", "L2"),
     Edge("L2", "unlock", "ready", "ret")}

\* GetFileList: Lock, the range over Files, Unlock; json.Marshal and w.Write
GetFileListFlow ==
    {Edge("L0", "lock", "ready", "L1"),
     Edge("L1", "unlock", "ready", "L2"),
     Edge("L2", "write", "", "ret")}

\* the positions of the handlers and the steps between them
Flow ==
    \* CreateFile: decoder.Decode; a 400 and return; the 400 for downloads
    \* without return; pendingFiles.Set; the 201 and the identifier
    {Edge("C0", "read", "", "C1"),
     Edge("C1", "write", "", "ret"),
     Edge("C1", "write", "", "C2"),
     Edge("C1", "step", "", "C2"),
     Edge("C2", "lock", "pending", "C3"),
     Edge("C3", "unlock", "pending", "C4"),
     Edge("C4", "write", "", "ret")}
    \* UploadFile: the 400 for a missing id; pendingFiles.Remove; the 404;
    \* the loop: return on cancellation, r.Body.Read and the next
    \* iteration, a 400 or 500, or the end of the body; the 400 for a short
    \* body; readyFiles.Set; w.Write
    \cup
    {Edge("U0", "write", "", "ret"),
     Edge("U0", "step", "", "U0l"),
     Edge("U0l", "lock", "pending", "U1"),
     Edge("U1", "unlock", "pending", "U2"),
     Edge("U2", "write", "", "ret"),
     Edge("U2", "step", "", "U3"),
     Edge("U3", "step", "", "ret"),
     Edge("U3", "read", "", "U3"),
     Edge("U3", "read", "", "U4"),
     Edge("U3", "read", "", "U5"),
     Edge("U4", "write", "", "ret"),
     Edge("U5", "write", "", "ret"),
     Edge("U5", "step", "", "U5l"),
     Edge("U5l", "lock", "ready", "U6"),
     Edge("U6", "unlock", "ready", "U7"),
     Edge("U7", "write", "", "ret")}
    \* GetFileContents: the 400 for a missing id; readyFiles.Get; the 404;
    \* the loop: w.Write of a chunk and the next iteration, or a failed
    \* write and return; Lock, f.Downloads += 1, Unlock
    \cup
    {Edge("G0", "write", "", "ret"),
     Edge("G0", "step", "", "G0l"),
     Edge("G0l", "lock", "ready", "G1"),
     Edge("G1", "unlock", "ready", "G2"),
     Edge("G2", "write", "", "ret"),
     Edge("G2", "step", "", "G3"),
     Edge("G3", "write", "", "G3"),
     Edge("G3", "write", "", "ret"),
     Edge("G3", "step", "", "G3l"),
     Edge("G3l", "lock", "ready", "G4"),
     Edge("G4", "unlock", "ready", "ret")}
    \* GetFileMetadata: the 400 for a missing id; readyFiles.Get; the 404
    \* or the metadata
    \cup
    {Edge("M0", "write", "", "ret"),
     Edge("M0", "step", "", "M0l"),
     Edge("M0l", "lock", "ready", "M1"),
     Edge("M1", "unlock", "ready", "M2"),
     Edge("M2", "write", "", "ret")}
    \cup GetFileListFlow

\* the steps of a kind that leave a position
Steps(pc, kind) == {e \in Flow : e.from = pc /\ e.kind = kind}

\* NewSet twice: both mutexes unlocked, no request
LockInit ==
    /\ ServerInit
    /\ adapters = NotRunning
    /\ caller = NotRunning
    /\ dl = NotRunning
    /\ put = NotRunning
    /\ mu = [pending |-> NoGoroutine, ready |-> NoGoroutine]
    /\ g = [p \in Goroutines |-> "idle"]

\* the router calls a handler in a goroutine that runs none
Serve(p, op) ==
    /\ g[p] = "idle"
    /\ g' = [g EXCEPT ![p] = Entry(op)]
    /\ UNCHANGED <<serverVars, clientVars, mu>>

\* sync.Mutex.Lock: blocks until no goroutine holds the mutex
Acquire(p) ==
    /\ \E e \in Steps(g[p], "lock") :
         /\ mu[e.set] = NoGoroutine
         /\ mu' = [mu EXCEPT ![e.set] = p]
         /\ g' = [g EXCEPT ![p] = e.to]
    /\ UNCHANGED <<serverVars, clientVars>>

\* sync.Mutex.Unlock
Release(p) ==
    /\ \E e \in Steps(g[p], "unlock") :
         /\ mu' = [mu EXCEPT ![e.set] = NoGoroutine]
         /\ g' = [g EXCEPT ![p] = e.to]
    /\ UNCHANGED <<serverVars, clientVars>>

\* a Read of the request body
BodyRead(p) ==
    /\ \E e \in Steps(g[p], "read") : g' = [g EXCEPT ![p] = e.to]
    /\ UNCHANGED <<serverVars, clientVars, mu>>

\* a write of the response: http.Error, http.NotFound, w.Write
ResponseWrite(p) ==
    /\ \E e \in Steps(g[p], "write") : g' = [g EXCEPT ![p] = e.to]
    /\ UNCHANGED <<serverVars, clientVars, mu>>

\* a step within the handler that takes no mutex and does no I/O
Step(p) ==
    /\ \E e \in Steps(g[p], "step") : g' = [g EXCEPT ![p] = e.to]
    /\ UNCHANGED <<serverVars, clientVars, mu>>

\* the handler returns
HandlerReturn(p) ==
    /\ g[p] = "ret"
    /\ g' = [g EXCEPT ![p] = "idle"]
    /\ UNCHANGED <<serverVars, clientVars, mu>>

LockNext ==
    \/ \E p \in Goroutines, op \in Handlers : Serve(p, op)
    \/ \E p \in Goroutines : Acquire(p)
    \/ \E p \in Goroutines : Release(p)
    \/ \E p \in Goroutines : BodyRead(p)
    \/ \E p \in Goroutines : ResponseWrite(p)
    \/ \E p \in Goroutines : Step(p)
    \/ \E p \in Goroutines : HandlerReturn(p)

\* The scheduler runs every goroutine that can take a step, so a handler
\* that holds a mutex reaches its Unlock; a sync.Mutex hands itself to a
\* goroutine that has waited (starvation mode), so a Lock that is possible
\* again and again is taken.  Requests and the I/O with a client need not
\* happen.
LockFairness ==
    \A p \in Goroutines :
        /\ WF_vars(Release(p))
        /\ SF_vars(Acquire(p))

LockSpec == LockInit /\ [][LockNext]_vars /\ LockFairness

\* ---------------------------------------------------------------- C20
\* the mutexes goroutine p holds
Held(p) == {s \in DOMAIN mu : mu[s] = p}

\* goroutine p is at a Lock
AtLock(p) == Steps(g[p], "lock") # {}

\* C20: a goroutine that is about to read the request body or to write the
\* response holds no mutex; no goroutine holds both mutexes; a goroutine
\* that holds a mutex is at the Unlock of that mutex, not at a Lock or at
\* I/O, so no goroutine waits for a goroutine that waits; and a handler
\* that has come to a Lock gets past it.
C20_Inv ==
    \A p \in Goroutines :
        /\ (Steps(g[p], "read") # {} \/ Steps(g[p], "write") # {}) => Held(p) = {}
        /\ Cardinality(Held(p)) <= 1
        /\ \A s \in Held(p) :
               /\ \E e \in Steps(g[p], "unlock") : e.set = s
               /\ \A e \in Flow : e.from = g[p] => (e.kind = "unlock" /\ e.set = s)

C20_LocksNotHeldAcrossIO ==
    /\ []C20_Inv
    /\ \A p \in Goroutines : AtLock(p) ~> ~AtLock(p)

\* a handler is at the Lock of the ready set's mutex while another
\* goroutine holds it
C20_Witness ==
    \E p, q \in Goroutines :
        /\ p # q
        /\ mu.ready = q
        /\ \E e \in Steps(g[p], "lock") : e.set = "ready"

\* ======================================================================
\* RelayClient.UploadFile against the server: one client uploads one file
\* ======================================================================
\* The client hashes the file, derives a key, POSTs the metadata, and
\* PUTs the output of the encrypting adapter as the request body.  The
\* transport delivers that body to the r.Body.Read calls of the server's
\* UploadFile in pieces of its choice; the server's steps are its actions
\* of above, with the client's requests as their inputs.

\* the sizes of the files uploaded: one and two bytes, around one chunk,
\* and MaxChunks full chunks
UploadSizes ==
    {1, 2, RawChunkSize - 1, RawChunkSize, RawChunkSize + 1, MaxChunks * RawChunkSize}

\* encryptedSize: the bytes and the chunks of the ciphertext of a file of
\* this size
encryptedSize(size) ==
    LET chunks == (size \div RawChunkSize)
                     + (IF size % RawChunkSize > 0 THEN 1 ELSE 0)
    IN [bytes |-> size + chunks * Overhead, chunks |-> chunks]

\* json.Marshal of a byte slice field, as CreateFile decodes it: that many
\* bytes
Marshal(data, b) == Bytes(ByteLen(data), b)

\* UploadFile, fileData: the metadata of a file of this size under a key
\* with this salt
UploadMeta(size, key) ==
    LET hash == HashData(FileBytes(size))
        challenge == EncryptChunk(key, hash).out
    IN [ID |-> << >>, Name |-> "a.txt", Size |-> size,
        Salt |-> Bytes(SaltSize, 7),
        Hash |-> Marshal(hash, 5),
        Challenge |-> Marshal(challenge, 3),
        Uploaded |-> 0, Downloads |-> 0]

\* the error UploadFile makes itself
ErrUpload == "upload failed with status code"
ErrUnmarshal == "json: cannot unmarshal"

\* UploadFile is called with a file and a password, and GenerateKey draws
\* a salt at random.  put.body is the request body of the PUT, put.ret the
\* error returned ("none" before the return).
UploadInit ==
    /\ ServerInit
    /\ adapters = NotRunning
    /\ caller = NotRunning
    /\ dl = NotRunning
    /\ mu = NotRunning
    /\ g = NotRunning
    /\ \E size \in UploadSizes, pass \in Passwords, salt \in Salts :
         put = [pc |-> "create", size |-> size, key |-> GenerateKey(pass, salt), id |-> Nil,
                encryptedBytes |-> 0, chunks |-> 0, body |-> << >>, ret |-> "none"]

\* UploadFile, rc.c.Post: the server's CreateFile decodes the metadata
PostMetadata ==
    /\ put.pc = "create"
    /\ requests = 0
    /\ CreateFile(UploadMeta(put.size, put.key), FALSE)

\* UploadFile from the response of the POST to rc.c.Do(put): the
\* identifier is decoded, and the transport reads the encrypting adapter
\* over the file to its end for the body of the PUT
StartPut ==
    /\ put.pc = "create"
    /\ resp.op = "Create"
    /\ resp' = NoResponse
    /\ IF ~ReturnsId(resp.w)
       THEN put' = [put EXCEPT !.pc = "done", !.ret = ErrUnmarshal]
       ELSE \E k \in {j \in 1..Len(resp.w.body) : resp.w.body[j].t = "id"},
               sz \in {encryptedSize(put.size)},
               x \in {ReadAll(NewEncryptingReader(NewSource(FileBytes(put.size), << >>),
                                                  RawChunkSize, put.key))} :
              IF x.err # "nil"
              THEN put' = [put EXCEPT !.pc = "done", !.ret = x.err]
              ELSE put' = [put EXCEPT !.pc = "put", !.id = Parse(resp.w.body[k].id).id,
                                      !.encryptedBytes = sz.bytes, !.chunks = sz.chunks,
                                      !.body = x.data]
    /\ UNCHANGED <<pendingFiles, readyFiles, h, nextId, requests, claimed, completed>>
    /\ UNCHANGED <<adapters, caller, dl, lockVars>>

\* the PUT reaches the server: UploadFile claims the record
PutRequest(p) ==
    /\ put.pc = "put"
    /\ claimed[put.id] = 0
    /\ UploadClaim(p, String(put.id))

\* the bytes of the body that the transport has still to deliver to the
\* handler in slot p
Remaining(p) == ByteLen(put.body) - h[p].totalBytes

\* the results of the next r.Body.Read that the transport can give when
\* this many bytes of the body remain: a piece of one byte, around
\* Overhead, a whole chunk or one byte less, all that remains or all but
\* one byte, and the EOF with the last piece or after it
Deliveries(remaining) ==
    {r \in [n : {1, Overhead - 1, Overhead, Overhead + 1, RawChunkSize,
                 ChunkSize - 1, ChunkSize, remaining - 1, remaining},
            err : {"nil"}] :
        1 <= r.n /\ r.n <= Min(ChunkSize, remaining)}
    \cup {r \in {[n |-> remaining, err |-> "EOF"]} : remaining <= ChunkSize}

\* the transport delivers the next piece of the body to r.Body.Read
BodyDelivered(p) ==
    /\ put.pc = "put"
    /\ h[p].op = "Upload" /\ h[p].id = put.id
    /\ \E r \in Deliveries(Remaining(p)) : UploadRead(p, r.n, r.err)

\* the body is read to its end: UploadFile checks the size and stores the
\* record
PutFinish(p) ==
    /\ put.pc = "put"
    /\ UploadFinish(p)

\* UploadFile, the response of the PUT: res.StatusCode
PutResponse ==
    /\ put.pc = "put"
    /\ resp.op = "Upload"
    /\ resp' = NoResponse
    /\ put' = [put EXCEPT !.pc = "done",
                          !.ret = IF StatusSent(resp.w) = StatusOK THEN "nil" ELSE ErrUpload]
    /\ UNCHANGED <<pendingFiles, readyFiles, h, nextId, requests, claimed, completed>>
    /\ UNCHANGED <<adapters, caller, dl, lockVars>>

UploadNext ==
    \/ PostMetadata
    \/ StartPut
    \/ \E p \in Procs : PutRequest(p)
    \/ \E p \in Procs : BodyDelivered(p)
    \/ \E p \in Procs : PutFinish(p)
    \/ PutResponse

UploadSpec == UploadInit /\ [][UploadNext]_vars

\* ---------------------------------------------------------------- C21
\* C21: an honest upload is accepted however the transport segments it.
\* The body of the PUT is the output of the encrypting adapter with chunk
\* size RawChunkSize over a file of exactly the declared Size, and the
\* transport delivers it to the handler's r.Body.Read calls in pieces of
\* 1..ChunkSize bytes: whenever UploadFile answers that request, the
\* status is 200 and the record is in the ready set.
C21_HonestUploadAccepted ==
    (/\ put.pc = "put"
     /\ ByteLen(put.body) = encryptedSize(put.size).bytes
     /\ resp.op = "Upload"
     /\ resp.id = put.id)
        => /\ StatusSent(resp.w) = StatusOK
           /\ put.id \in DOMAIN readyFiles

\* ---------------------------------------------------------------- C22
\* the bytes of a stored chunk sequence: the sum of the chunks' lengths
RECURSIVE TotalLen(_)
TotalLen(data) ==
    IF data = << >> THEN 0 ELSE Head(data).len + TotalLen(Tail(data))

\* the chunks stored for f are within what encryptedSize computes from the
\* declared size
WithinEncryptedSize(f) ==
    /\ Len(f.Data) <= encryptedSize(f.Size).chunks
    /\ TotalLen(f.Data) <= encryptedSize(f.Size).bytes

\* C22: the ciphertext stored for a record is bounded by its declared
\* size.  At every point of an UploadFile, and for every record in the
\* ready set, the number of stored chunks is at most
\* ceil(Size / RawChunkSize) and the stored bytes are at most
\* Size + ceil(Size / RawChunkSize) * Overhead, whatever the request body.
C22_StoredWithinDeclaredSize ==
    /\ \A p \in Procs : h[p].op = "Upload" => WithinEncryptedSize(h[p].f)
    /\ \A id \in DOMAIN readyFiles : WithinEncryptedSize(readyFiles[id])

====
